---- MODULE Spec2Model ----
(***************************************************************************)
(* Model of buat_user.py: the Streamlit admin page "Manajemen User PWH".   *)
(*                                                                         *)
(* Every user interaction re-executes the script top to bottom; one action *)
(* of the model is one such script run (with the st.rerun() it may end in).*)
(* Text is modelled as sequences of code points so that str.strip(),       *)
(* slicing, len() and ORDER BY do what they do in the program.             *)
(***************************************************************************)
EXTENDS Integers, Sequences, FiniteSets, TLC

VARIABLES
    MASTER_KEY,     \* st.secrets["secrets"]["MASTER_KEY"] ("" when not configured)
    users,          \* table pwh.users: set of rows
    clock,          \* the store's now(), source of created_at
    directory,      \* table pwh.hmhi_cabang: the cabang value of each of its rows
    cache_users,    \* st.cache_data entry of fetch_user_list (NoCache when absent)
    cache_cabang,   \* st.cache_data entry of fetch_cabang_list (NoCache when absent)
    session_state,  \* st.session_state of every browser session
    shown,          \* what the last script run of a session left on screen
    armed_for,      \* history: the username displayed in row i when confirm_delete_i was armed
    correct_key,    \* history: the sessions that have submitted the configured secret
    last            \* the last interaction: its inputs and what the code did

vars == <<MASTER_KEY, users, clock, directory, cache_users, cache_cabang,
          session_state, shown, armed_for, correct_key, last>>

----------------------------------------------------------------------------
(* Bounds of the model *)

\* number of INSERTs the store accepts in one behaviour (created_at values)
MaxClock == 2

(* Program constants *)

\* len(password) < 8
MinPasswordLen == 8
\* password[:72]
MaxHashInput == 72

----------------------------------------------------------------------------
(* Text *)

Whitespace == {9, 10, 11, 12, 13, 28, 29, 30, 31, 32}

RECURSIVE LStrip(_)
LStrip(s) == IF s # <<>> /\ Head(s) \in Whitespace THEN LStrip(Tail(s)) ELSE s

RECURSIVE RStrip(_)
RStrip(s) ==
    IF s # <<>> /\ s[Len(s)] \in Whitespace THEN RStrip(SubSeq(s, 1, Len(s) - 1)) ELSE s

\* str.strip()
Strip(s) == RStrip(LStrip(s))

\* s[:n]
Truncate(s, n) == SubSeq(s, 1, IF Len(s) < n THEN Len(s) ELSE n)

\* c repeated n times
Rep(n, c) == [i \in 1..n |-> c]

\* a < b in the store's ORDER BY (code point order)
RECURSIVE LexLess(_, _)
LexLess(a, b) ==
    IF a = <<>> THEN b # <<>>
    ELSE IF b = <<>> THEN FALSE
    ELSE IF Head(a) # Head(b) THEN Head(a) < Head(b)
    ELSE LexLess(Tail(a), Tail(b))

----------------------------------------------------------------------------
(* Inputs *)

Sessions == {"s1", "s2"}

\* "", "key", "bad"
KeyInputs == {"", "key", "bad"}
MasterKeys == {"", "key"}

\* "", " ", " a", "b"
UsernameInputs == {<<>>, <<32>>, <<32, 97>>, <<98>>}

\* "", 7 chars, 8 chars, 72 chars, 73 chars whose first 72 are the 72-char password
PasswordInputs ==
    {<<>>,
     Rep(MinPasswordLen - 1, 97),
     Rep(MinPasswordLen, 97),
     Rep(MaxHashInput, 97),
     Rep(MaxHashInput, 97) \o <<98>>}


\* The create form as the account lifecycle uses it: " a" and "b", an 8-char and a
\* 73-char password typed twice, any branch on offer (the form itself is explored
\* with all of the inputs above under SpecForm)
LifecycleUsernames == {<<32, 97>>, <<98>>}
LifecyclePasswords == {Rep(MinPasswordLen, 97), Rep(MaxHashInput, 97) \o <<98>>}
\* what the lifecycle types into a row's password input: those and a 7-char one
UpdatePasswords == LifecyclePasswords \cup {Rep(MinPasswordLen - 1, 97)}

Salts == {1}

\* a NULL cabang
NullCabang == <<0>>
\* "ALL"
ALL == <<65, 76, 76>>
\* "X"
BranchNames == {<<88>>}
\* the directory tables of the lifecycle: no row, or the one row "X"
DirectoryTables == {<<>>} \cup {<<c>> : c \in BranchNames}
\* what the selectbox of the create form can hold
CabangInputs == {<<>>, ALL} \cup BranchNames

StmtResults == {"ok", "error"}
InsertResults == {"ok", "integrity", "error"}

\* an absent st.cache_data entry, and a present one holding the returned value
NoCache == [valid |-> FALSE, value |-> <<>>]
Cached(v) == [valid |-> TRUE, value |-> v]

\* no account (a NULL in the bookkeeping of the model)
NoUser == <<0>>
MaxRows == Cardinality({Strip(u) : u \in UsernameInputs})
RowIndexes == 0 .. (MaxRows - 1)

----------------------------------------------------------------------------
(* Password Hasher: pwd_context = CryptContext(schemes=["bcrypt_sha256"]) *)

\* pwd_context.hash(secret) with the salt it drew: "$" salt digest(secret)
Hash(secret, salt) == <<36, salt>> \o secret

\* pwd_context.verify(secret, hash): re-hash the whole secret with the hash's salt
Verify(secret, hash) ==
    /\ Len(hash) >= 2
    /\ hash[1] = 36
    /\ hash = Hash(secret, hash[2])

----------------------------------------------------------------------------
(* Credential Store: table pwh.users(username UNIQUE, hashed_password,     *)
(* cabang, created_at DEFAULT now())                                       *)

Usernames(tbl) == {r.username : r \in tbl}

\* INSERT INTO pwh.users (username, hashed_password, cabang) VALUES (...)
\* res is what the store does with the statement apart from the unique constraint
InsertUser(tbl, ck, user, pass, branch, res) ==
    IF res = "error" THEN [outcome |-> "error", users |-> tbl, clock |-> ck]
    ELSE IF res = "integrity" THEN [outcome |-> "integrity", users |-> tbl, clock |-> ck]
    ELSE IF user \in Usernames(tbl) THEN [outcome |-> "unique", users |-> tbl, clock |-> ck]
    ELSE [outcome |-> "ok",
          users |-> tbl \cup {[username |-> user, hashed_password |-> pass,
                               cabang |-> branch, created_at |-> ck + 1]},
          clock |-> ck + 1]

\* (mutant) an UPDATE that matches no row is an error
UpdateStmtMatched(tbl, u, p, res) ==
    IF res # "ok" \/ u \notin Usernames(tbl) THEN [outcome |-> "error", users |-> tbl]
    ELSE [outcome |-> "ok",
          users |-> {IF r.username = u THEN [r EXCEPT !.hashed_password = p] ELSE r : r \in tbl}]

\* (mutant) an UPDATE without its WHERE clause
UpdateStmtEveryRow(tbl, u, p, res) ==
    IF res # "ok" THEN [outcome |-> "error", users |-> tbl]
    ELSE [outcome |-> "ok", users |-> {[r EXCEPT !.hashed_password = p] : r \in tbl}]

\* UPDATE pwh.users SET hashed_password = :p WHERE username = :u
UpdateStmt(tbl, u, p, res) ==
    IF res # "ok" THEN [outcome |-> "error", users |-> tbl]
    ELSE [outcome |-> "ok",
          users |-> {IF r.username = u THEN [r EXCEPT !.hashed_password = p] ELSE r : r \in tbl}]

\* DELETE FROM pwh.users WHERE username = :u
DeleteStmt(tbl, u, res) ==
    IF res # "ok" THEN [outcome |-> "error", users |-> tbl]
    ELSE [outcome |-> "ok", users |-> {r \in tbl : r.username # u}]

Range(seq) == {seq[k] : k \in 1..Len(seq)}

\* the columns of the listing query
ListingRow(r) == [username |-> r.username, cabang |-> r.cabang, created_at |-> r.created_at]

\* SELECT username, cabang, created_at FROM pwh.users ORDER BY username
RECURSIVE SelectUsers(_)
SelectUsers(tbl) ==
    IF tbl = {} THEN <<>>
    ELSE LET m == CHOOSE r \in tbl : \A q \in tbl : ~LexLess(q.username, r.username)
         IN  <<ListingRow(m)>> \o SelectUsers(tbl \ {m})

\* SELECT DISTINCT cabang FROM pwh.hmhi_cabang WHERE cabang IS NOT NULL ORDER BY cabang
RECURSIVE SortValues(_)
SortValues(S) ==
    IF S = {} THEN <<>>
    ELSE LET m == CHOOSE c \in S : \A q \in S : ~LexLess(q, c)
         IN  <<m>> \o SortValues(S \ {m})

\* (mutant) the query without its WHERE clause
SelectCabangWithNull(dir) == SortValues(Range(dir))

SelectCabang(dir) == SortValues(Range(dir) \ {NullCabang})

----------------------------------------------------------------------------
(* Cached reads.  Each returns the cache entry after the call; its value   *)
(* is what the call returned.                                              *)

\* fetch_cabang_list under @st.cache_data
fetch_cabang_list(entry, dir, res) ==
    IF entry.valid THEN entry
    ELSE IF res = "ok" THEN Cached(<<<<>>, ALL>> \o SelectCabang(dir))
    ELSE Cached(<<<<>>, ALL>>)

\* fetch_user_list under @st.cache_data
fetch_user_list(entry, tbl, res) ==
    IF entry.valid THEN entry
    ELSE IF res = "ok" THEN Cached(SelectUsers(tbl))
    ELSE Cached(<<>>)

----------------------------------------------------------------------------
(* Session gate *)

\* (mutant) the comparison accepts any input
KeyMatchesAny(master_key_input) == TRUE

\* (mutant) the comparison accepts no input
KeyMatchesNever(master_key_input) == FALSE

\* master_key_input == MASTER_KEY
KeyMatches(master_key_input) == master_key_input = MASTER_KEY

\* (mutant) the main logic goes to the admin tabs whatever the session holds
MainLogicOpen(ss) == "admin"

\* the branch the main logic takes
MainLogic(ss) ==
    IF ~ss.master_auth_ok THEN "locked"
    ELSE IF ss.master_auth_ok /\ ~ss.show_form THEN "verified"
    ELSE "admin"

\* (mutant) check_master_key without the st.stop() of an unconfigured secret
PromptRenderedAlways == TRUE

\* check_master_key up to the prompt: st.stop() when MASTER_KEY is not configured
PromptRendered == MASTER_KEY # ""

\* A script run in which no button is pressed: what it leaves on screen and in the caches
PlainRun(ss, cc, cu, tbl, dir, db) ==
    IF MainLogic(ss) = "locked" THEN
        [screen |-> IF PromptRendered THEN "locked" ELSE "halt",
         rows |-> <<>>, options |-> <<>>, cc |-> cc, cu |-> cu, store |-> "ok",
         msgs |-> IF PromptRendered THEN {} ELSE {"config_error"}]
    ELSE IF MainLogic(ss) = "verified" THEN
        [screen |-> "verified", rows |-> <<>>, options |-> <<>>, cc |-> cc, cu |-> cu,
         store |-> "ok",
         msgs |-> {"verified"}]
    ELSE
        LET c2 == fetch_cabang_list(cc, dir, db)
            u2 == fetch_user_list(cu, tbl, db)
        IN  [screen |-> "admin", rows |-> u2.value, options |-> c2.value,
             cc |-> c2, cu |-> u2, store |-> db,
             msgs |-> (IF ~cc.valid /\ db # "ok" THEN {"cabang_error"} ELSE {})
                      \cup (IF ~cu.valid /\ db # "ok" THEN {"list_error"} ELSE {})]

Screen(run) == [screen |-> run.screen, rows |-> run.rows, options |-> run.options]

\* the record of an interaction: store is what the store did with the statements of
\* the run ("ok" when the run sent none)
Interaction(op, s, outcome, msgs, store) ==
    [op |-> op, sess |-> s, outcome |-> outcome, msgs |-> msgs, store |-> store,
     username |-> <<>>, password |-> <<>>, confirm |-> <<>>, cabang |-> <<>>,
     row |-> -1, target |-> NoUser, key |-> ""]

----------------------------------------------------------------------------
\* The state before the first script run of the sessions in open
InitWith(open) ==
    /\ MASTER_KEY \in MasterKeys
    /\ users = {}
    /\ clock = 0
    /\ directory \in DirectoryTables
    /\ cache_users = NoCache
    /\ cache_cabang = NoCache
    /\ session_state = [s \in Sessions |->
            [master_auth_ok |-> FALSE, show_form |-> FALSE, confirm_delete |-> {}]]
    /\ shown = [s \in Sessions |->
            [screen |-> IF s \in open THEN "none" ELSE "closed",
             rows |-> <<>>, options |-> <<>>]]
    /\ armed_for = [s \in Sessions |-> [i \in RowIndexes |-> NoUser]]
    /\ correct_key = {}
    /\ last = Interaction("none", "s1", "none", {}, "ok")

\* one browser session
Init == InitWith({"s1"})

\* The page is loaded, or re-run without any button pressed
Rerun(s) ==
    /\ shown[s].screen # "closed"
    /\ \E db \in StmtResults :
        LET run == PlainRun(session_state[s], cache_cabang, cache_users, users, directory, db)
        IN  /\ shown' = [shown EXCEPT ![s] = Screen(run)]
            /\ cache_cabang' = run.cc
            /\ cache_users' = run.cu
            /\ last' = Interaction("rerun", s, "none", run.msgs, run.store)
            /\ UNCHANGED <<MASTER_KEY, users, clock, directory, session_state, armed_for,
                          correct_key>>

\* "Verifikasi Master Key" pressed with master_key_input in the prompt
SubmitMasterKey(s, master_key_input) ==
    /\ shown[s].screen = "locked"
    /\ MainLogic(session_state[s]) = "locked"
    /\ PromptRendered
    /\ \E db \in StmtResults :
        IF KeyMatches(master_key_input)
        THEN LET ss2 == [session_state[s] EXCEPT !.master_auth_ok = TRUE]
                 run == PlainRun(ss2, cache_cabang, cache_users, users, directory, db)
             IN  /\ session_state' = [session_state EXCEPT ![s] = ss2]
                 /\ shown' = [shown EXCEPT ![s] = Screen(run)]
                 /\ cache_cabang' = run.cc
                 /\ cache_users' = run.cu
                 /\ last' = [Interaction("key", s, "key_ok", run.msgs, run.store)
                                EXCEPT !.key = master_key_input]
        ELSE /\ last' = [Interaction("key", s, "key_wrong", {"key_wrong"}, "ok")
                                EXCEPT !.key = master_key_input]
             /\ UNCHANGED <<session_state, shown, cache_cabang, cache_users>>
    /\ correct_key' = IF master_key_input = MASTER_KEY THEN correct_key \cup {s} ELSE correct_key
    /\ UNCHANGED <<MASTER_KEY, users, clock, directory, armed_for>>

\* "Masuk ke Halaman Admin" pressed
EnterAdmin(s) ==
    /\ shown[s].screen = "verified"
    /\ MainLogic(session_state[s]) = "verified"
    /\ \E db \in StmtResults :
        LET ss2 == [session_state[s] EXCEPT !.show_form = TRUE]
            run == PlainRun(ss2, cache_cabang, cache_users, users, directory, db)
        IN  /\ session_state' = [session_state EXCEPT ![s] = ss2]
            /\ shown' = [shown EXCEPT ![s] = Screen(run)]
            /\ cache_cabang' = run.cc
            /\ cache_users' = run.cu
            /\ last' = Interaction("enter", s, "entered", run.msgs, run.store)
    /\ UNCHANGED <<MASTER_KEY, users, clock, directory, armed_for, correct_key>>

----------------------------------------------------------------------------
(* User administration: admin_tabs *)

\* (mutant) the validation chain without its length check
ValidateCreateNoLength(username, password, password_confirm, cabang) ==
    IF Len(username) = 0 \/ Len(password) = 0 \/ Len(cabang) = 0 THEN "empty_field"
    ELSE IF password # password_confirm THEN "mismatch"
    ELSE "valid"

\* the validation chain of the create form
ValidateCreate(username, password, password_confirm, cabang) ==
    IF Len(username) = 0 \/ Len(password) = 0 \/ Len(cabang) = 0 THEN "empty_field"
    ELSE IF password # password_confirm THEN "mismatch"
    ELSE IF Len(password) < MinPasswordLen THEN "too_short"
    ELSE "valid"

\* (mutant) every failed INSERT is reported the same way
CreateOutcomeGeneric(ins) == IF ins = "ok" THEN "created" ELSE "error"

\* the message the form shows for what the INSERT did
CreateOutcome(ins) ==
    IF ins = "ok" THEN "created"
    ELSE IF ins = "unique" THEN "exists"
    ELSE IF ins = "integrity" THEN "db_error"
    ELSE "error"

\* (mutant) the INSERT is given the username as typed
StoredUsernameRaw(username) == username

\* the username the INSERT is given
StoredUsername(username) == Strip(username)

\* the hash the form and update_user_password store
StoredHash(password, salt) == Hash(Truncate(password, MaxHashInput), salt)

\* st.cache_data.clear() after a statement that succeeded
ClearIf(done, entry) == IF done THEN NoCache ELSE entry

\* "Buat User Baru" submitted
CreateSubmit(s, username, password, password_confirm, cabang) ==
    /\ shown[s].screen = "admin"
    /\ MainLogic(session_state[s]) = "admin"
    /\ cabang \in Range(shown[s].options)
    /\ clock < MaxClock
    /\ \E db \in StmtResults, ri \in InsertResults, salt \in Salts :
        LET c2 == fetch_cabang_list(cache_cabang, directory, db)
            v == ValidateCreate(username, password, password_confirm, cabang)
            ins == IF v = "valid"
                   THEN InsertUser(users, clock, StoredUsername(username),
                                   StoredHash(password, salt), cabang, ri)
                   ELSE [outcome |-> v, users |-> users, clock |-> clock]
            done == v = "valid" /\ ins.outcome = "ok"
            outcome == IF v = "valid" THEN CreateOutcome(ins.outcome) ELSE v
            u2 == fetch_user_list(ClearIf(done, cache_users), ins.users, db)
        IN  /\ (ri = "error") = (db = "error")
            /\ cabang \in Range(c2.value)
            /\ users' = ins.users
            /\ clock' = ins.clock
            /\ cache_cabang' = ClearIf(done, c2)
            /\ cache_users' = u2
            /\ shown' = [shown EXCEPT ![s] =
                    [screen |-> "admin", rows |-> u2.value, options |-> c2.value]]
            /\ last' = [Interaction("create", s, outcome, {outcome}, ri) EXCEPT
                            !.username = username, !.password = password,
                            !.confirm = password_confirm, !.cabang = cabang,
                            !.target = StoredUsername(username)]
    /\ UNCHANGED <<MASTER_KEY, directory, session_state, armed_for, correct_key>>

\* "Update Password" pressed in row i with new_pw in the row's text input
UpdateClick(s, i, new_pw) ==
    /\ shown[s].screen = "admin"
    /\ MainLogic(session_state[s]) = "admin"
    /\ i < Len(shown[s].rows)
    /\ \E db \in StmtResults, salt \in Salts :
        LET c2 == fetch_cabang_list(cache_cabang, directory, db)
            u2 == fetch_user_list(cache_users, users, db)
            df == u2.value
        IN  /\ i < Len(df)
            /\ LET row == df[i + 1]
                   short == Len(new_pw) < MinPasswordLen
                   upd == IF short THEN [outcome |-> "pw_too_short", users |-> users]
                          ELSE UpdateStmt(users, row.username, StoredHash(new_pw, salt), db)
                   done == ~short /\ upd.outcome = "ok"
                   outcome == IF short THEN "pw_too_short"
                              ELSE IF done THEN "updated" ELSE "update_failed"
               IN  /\ users' = upd.users
                   /\ cache_cabang' = ClearIf(done, c2)
                   /\ cache_users' = ClearIf(done, u2)
                   /\ shown' = [shown EXCEPT ![s] =
                            [screen |-> "admin", rows |-> df, options |-> c2.value]]
                   /\ last' = [Interaction("update", s, outcome, {outcome}, db) EXCEPT
                                    !.password = new_pw, !.row = i, !.target = row.username]
    /\ UNCHANGED <<MASTER_KEY, clock, directory, session_state, armed_for, correct_key>>

\* (mutant) the flag reads as armed from the start
ArmedAlways(ss, i) == TRUE

\* st.session_state.get(f"confirm_delete_{i}", False)
Armed(ss, i) == i \in ss.confirm_delete

\* (mutant) the second activation clears the whole session state
DisarmAll(ss, i) == [master_auth_ok |-> FALSE, show_form |-> FALSE, confirm_delete |-> {}]

\* st.session_state[f"confirm_delete_{i}"] = False
Disarm(ss, i) == [ss EXCEPT !.confirm_delete = @ \ {i}]

\* "Hapus" pressed in row i
DeleteClick(s, i) ==
    /\ shown[s].screen = "admin"
    /\ MainLogic(session_state[s]) = "admin"
    /\ i < Len(shown[s].rows)
    /\ \E db \in StmtResults :
        LET c2 == fetch_cabang_list(cache_cabang, directory, db)
            u2 == fetch_user_list(cache_users, users, db)
            df == u2.value
            ss == session_state[s]
        IN  /\ i < Len(df)
            /\ LET row == df[i + 1] IN
               IF Armed(ss, i)
               THEN \* delete_user, disarm, st.rerun()
                    LET del == DeleteStmt(users, row.username, db)
                        done == del.outcome = "ok"
                        ss2 == Disarm(ss, i)
                        run == PlainRun(ss2, ClearIf(done, c2), ClearIf(done, u2),
                                        del.users, directory, db)
                    IN  /\ users' = del.users
                        /\ session_state' = [session_state EXCEPT ![s] = ss2]
                        /\ armed_for' = [armed_for EXCEPT ![s][i] = NoUser]
                        /\ cache_cabang' = run.cc
                        /\ cache_users' = run.cu
                        /\ shown' = [shown EXCEPT ![s] = Screen(run)]
                        /\ last' = [Interaction("delete", s,
                                        IF done THEN "deleted" ELSE "delete_failed", run.msgs, db)
                                    EXCEPT !.row = i, !.target = row.username]
               ELSE \* arm the flag, warn
                    /\ users' = users
                    /\ session_state' = [session_state EXCEPT ![s].confirm_delete = @ \cup {i}]
                    /\ armed_for' = [armed_for EXCEPT ![s][i] = row.username]
                    /\ cache_cabang' = c2
                    /\ cache_users' = u2
                    /\ shown' = [shown EXCEPT ![s] =
                            [screen |-> "admin", rows |-> df, options |-> c2.value]]
                    /\ last' = [Interaction("delete", s, "armed", {"confirm_warning"}, db)
                                EXCEPT !.row = i, !.target = row.username]
    /\ UNCHANGED <<MASTER_KEY, clock, directory, correct_key>>

\* The branch directory is changed by its owner
DirectoryChange ==
    /\ \E d \in DirectoryTables :
        /\ d # directory
        /\ directory' = d
    /\ last' = Interaction("directory", "s1", "none", {}, "ok")
    /\ UNCHANGED <<MASTER_KEY, users, clock, cache_users, cache_cabang, session_state,
                   shown, armed_for, correct_key>>

Next ==
    \/ \E s \in Sessions : Rerun(s)
    \/ \E s \in Sessions, k \in KeyInputs : SubmitMasterKey(s, k)
    \/ \E s \in Sessions : EnterAdmin(s)
    \/ \E s \in Sessions, u \in LifecycleUsernames, p \in LifecyclePasswords,
          c \in CabangInputs : CreateSubmit(s, u, p, p, c)
    \/ \E s \in Sessions, i \in RowIndexes, p \in UpdatePasswords : UpdateClick(s, i, p)
    \/ \E s \in Sessions, i \in RowIndexes : DeleteClick(s, i)
    \/ DirectoryChange

Spec == Init /\ [][Next]_vars

----------------------------------------------------------------------------
(* The create form on its own: one submission, with every input of the     *)
(* pools, from an Active session whose listing is fresh.  The initial      *)
(* states are states of Spec (a Create of "b" or " a" with the 8-char      *)
(* password and branch ALL, then a re-run).                                *)

Account(username) ==
    [username |-> username, hashed_password |-> StoredHash(Rep(MinPasswordLen, 97), 1),
     cabang |-> ALL, created_at |-> 1]

FormStores == {{}, {Account(<<97>>)}, {Account(<<98>>)}}

InitForm ==
    /\ MASTER_KEY = "key"
    /\ users \in FormStores
    /\ clock = Cardinality(users)
    /\ directory \in DirectoryTables /\ Len(directory) = 1
    /\ cache_users = Cached(SelectUsers(users))
    /\ cache_cabang = Cached(<<<<>>, ALL>> \o SelectCabang(directory))
    /\ session_state = [s \in Sessions |->
            [master_auth_ok |-> s = "s1", show_form |-> s = "s1", confirm_delete |-> {}]]
    /\ shown = [s \in Sessions |->
            IF s = "s1"
            THEN [screen |-> "admin", rows |-> cache_users.value, options |-> cache_cabang.value]
            ELSE [screen |-> "closed", rows |-> <<>>, options |-> <<>>]]
    /\ armed_for = [s \in Sessions |-> [i \in RowIndexes |-> NoUser]]
    /\ correct_key = {"s1"}
    /\ last = Interaction("rerun", "s1", "none", {}, "ok")

NextForm ==
    /\ last.op = "rerun"
    /\ \E u \in UsernameInputs, p, pc \in PasswordInputs, c \in CabangInputs :
            CreateSubmit("s1", u, p, pc, c)

SpecForm == InitForm /\ [][NextForm]_vars

\* the initial states of SpecForm, as states of Spec
FormStateReached ==
    /\ MASTER_KEY = "key"
    /\ users \in FormStores
    /\ clock = Cardinality(users)
    /\ directory \in DirectoryTables /\ Len(directory) = 1
    /\ cache_users = Cached(SelectUsers(users))
    /\ cache_cabang = Cached(<<<<>>, ALL>> \o SelectCabang(directory))
    /\ session_state["s1"] = [master_auth_ok |-> TRUE, show_form |-> TRUE, confirm_delete |-> {}]
    /\ shown["s1"] = [screen |-> "admin", rows |-> cache_users.value,
                      options |-> cache_cabang.value]
    /\ last = Interaction("rerun", "s1", "none", {}, "ok")

----------------------------------------------------------------------------
(* The branch list read from every small directory table: an Active        *)
(* session whose caches a password update has just cleared, the directory  *)
(* then changed by its owner to any table of up to MaxDirRows rows (NULLs   *)
(* and repeated names included), and the next script run.                  *)

\* rows of the directory table
MaxDirRows == 4

\* "X" and "WY"
DirectoryNames == {<<88>>, <<87, 89>>}

BranchTables ==
    UNION {[1..n -> DirectoryNames \cup {NullCabang}] : n \in 0..MaxDirRows}

InitBranches ==
    /\ MASTER_KEY = "key"
    /\ users = {Account(<<98>>)}
    /\ clock = 1
    /\ directory \in BranchTables
    /\ cache_users = NoCache
    /\ cache_cabang = NoCache
    /\ session_state = [s \in Sessions |->
            [master_auth_ok |-> s = "s1", show_form |-> s = "s1", confirm_delete |-> {}]]
    /\ shown = [s \in Sessions |->
            IF s = "s1"
            THEN [screen |-> "admin", rows |-> SelectUsers(users), options |-> <<<<>>, ALL>>]
            ELSE [screen |-> "closed", rows |-> <<>>, options |-> <<>>]]
    /\ armed_for = [s \in Sessions |-> [i \in RowIndexes |-> NoUser]]
    /\ correct_key = {"s1"}
    /\ last = Interaction("directory", "s1", "none", {}, "ok")

NextBranches == last.op = "directory" /\ Rerun("s1")

SpecBranches == InitBranches /\ [][NextBranches]_vars

----------------------------------------------------------------------------
(* Password updates against a table that is also written outside this page *)
(* (pwh.users is the login table of the application the accounts are for): *)
(* an Active session with two accounts listed and cached, rows removed     *)
(* from the table behind the cache, and the row buttons of the listing.    *)

InitStale ==
    /\ MASTER_KEY = "key"
    /\ users = {Account(<<97>>), [Account(<<98>>) EXCEPT !.created_at = 2]}
    /\ clock = 2
    /\ directory \in DirectoryTables
    /\ cache_users = Cached(SelectUsers(users))
    /\ cache_cabang = Cached(<<<<>>, ALL>> \o SelectCabang(directory))
    /\ session_state = [s \in Sessions |->
            [master_auth_ok |-> s = "s1", show_form |-> s = "s1", confirm_delete |-> {}]]
    /\ shown = [s \in Sessions |->
            IF s = "s1"
            THEN [screen |-> "admin", rows |-> cache_users.value, options |-> cache_cabang.value]
            ELSE [screen |-> "closed", rows |-> <<>>, options |-> <<>>]]
    /\ armed_for = [s \in Sessions |-> [i \in RowIndexes |-> NoUser]]
    /\ correct_key = {"s1"}
    /\ last = Interaction("rerun", "s1", "none", {}, "ok")

\* a row of pwh.users is removed by another client of the database
RowRemoved ==
    /\ \E r \in users : users' = users \ {r}
    /\ last' = Interaction("external", "s1", "none", {}, "ok")
    /\ UNCHANGED <<MASTER_KEY, clock, directory, cache_users, cache_cabang, session_state,
                   shown, armed_for, correct_key>>

NextStale ==
    \/ RowRemoved
    \/ Rerun("s1")
    \/ \E i \in RowIndexes, p \in UpdatePasswords : UpdateClick("s1", i, p)

SpecStale == InitStale /\ [][NextStale]_vars

----------------------------------------------------------------------------
(* Two admin sessions on the same store: both Active, the account "b"      *)
(* listed in both, and the script runs of the two sessions interleaved.    *)

InitTwo ==
    /\ MASTER_KEY = "key"
    /\ users = {Account(<<98>>)}
    /\ clock = 1
    /\ directory = <<>>
    /\ cache_users = Cached(SelectUsers(users))
    /\ cache_cabang = Cached(<<<<>>, ALL>> \o SelectCabang(directory))
    /\ session_state = [s \in Sessions |->
            [master_auth_ok |-> TRUE, show_form |-> TRUE, confirm_delete |-> {}]]
    /\ shown = [s \in Sessions |->
            [screen |-> "admin", rows |-> cache_users.value, options |-> cache_cabang.value]]
    /\ armed_for = [s \in Sessions |-> [i \in RowIndexes |-> NoUser]]
    /\ correct_key = Sessions
    /\ last = Interaction("rerun", "s1", "none", {}, "ok")

\* what the two operators type: the username "a", one password for a new account,
\* another for a password update
TwoUsername == <<97>>
TwoPassword == Rep(MinPasswordLen, 97)
TwoNewPassword == Rep(MinPasswordLen, 98)

NextTwo ==
    \E s \in Sessions :
        \/ Rerun(s)
        \/ CreateSubmit(s, TwoUsername, TwoPassword, TwoPassword, ALL)
        \/ \E i \in RowIndexes : UpdateClick(s, i, TwoNewPassword)
        \/ \E i \in RowIndexes : DeleteClick(s, i)

SpecTwo == InitTwo /\ [][NextTwo]_vars

----------------------------------------------------------------------------
(* Claims *)

Active(s) == session_state[s].master_auth_ok /\ session_state[s].show_form

\* what the last interaction was given, read as the create form reads it
FormComplete(l) ==
    /\ Len(l.username) > 0
    /\ Len(l.password) >= MinPasswordLen
    /\ l.password = l.confirm
    /\ Len(l.cabang) > 0

ValidationErrors == {"empty_field", "mismatch", "too_short"}

\* the rows of a listing with this username and branch
RowsWith(rows, username, cabang) ==
    {k \in 1..Len(rows) : rows[k].username = username /\ rows[k].cabang = cabang}

\* C1: the gate of a session is Active (show_form set, the admin tabs rendered) only
\* if that session has earlier submitted an input equal to the configured secret.
C1_ActiveOnlyAfterCorrectKey ==
    \A s \in Sessions :
        (session_state[s].show_form \/ shown[s].screen = "admin") => s \in correct_key

C1_Witness ==
    /\ session_state["s1"].show_form
    /\ shown["s1"].screen = "admin"
    /\ "s1" \in correct_key

\* C2: every step that changes the users table is a Create, UpdatePassword or Delete
\* of a session whose gate is Active when the step starts.
C2_WritesOnlyWhenActive ==
    [][users' # users =>
            /\ last'.op \in {"create", "update", "delete"}
            /\ Active(last'.sess)]_vars

C2_Witness == last.op = "create" /\ last.outcome = "created" /\ users # {}

\* C3 as stated: a complete Create whose username (as typed) is not in the store
\* succeeds, the listing rendered next has exactly one row with that username and
\* branch, and the stored hash is not the plaintext.  Stated here of the runs in
\* which the store executes the statements and of usernames that are not blank.
C3_Original ==
    [][(last'.op = "create" /\ FormComplete(last') /\ last'.store = "ok"
            /\ Strip(last'.username) # <<>>
            /\ last'.username \notin Usernames(users))
        => /\ last'.outcome = "created"
           /\ Cardinality(RowsWith(shown'[last'.sess].rows, last'.username, last'.cabang)) = 1
           /\ \A r \in users' : r.username = last'.username
                                    => r.hashed_password # last'.password]_vars

\* C3 as amended: a complete Create whose username, stripped of surrounding
\* whitespace, is not in the store succeeds (the store executing the statements), the
\* listing rendered next has exactly one row with the stripped username and the
\* branch, and the stored hash is not the plaintext.
C3_CreateListsStrippedUsername ==
    [][(last'.op = "create" /\ FormComplete(last') /\ last'.store = "ok"
            /\ Strip(last'.username) \notin Usernames(users))
        => /\ last'.outcome = "created"
           /\ Cardinality(RowsWith(shown'[last'.sess].rows,
                                   Strip(last'.username), last'.cabang)) = 1
           /\ Cardinality({r \in users' : r.username = Strip(last'.username)}) = 1
           /\ \A r \in users' : r.username = Strip(last'.username)
                                    => r.hashed_password # last'.password]_vars

C3_Witness ==
    /\ last.op = "create"
    /\ last.outcome = "created"
    /\ last.username # Strip(last.username)
    /\ Cardinality(RowsWith(shown["s1"].rows, Strip(last.username), last.cabang)) = 1

\* C4: a complete Create whose username is already in the store ends in the
\* "username already exists" outcome and leaves the users table as it was (the
\* store executing the statement).
C4_DuplicateIsConflict ==
    [][(last'.op = "create" /\ FormComplete(last') /\ last'.store = "ok"
            /\ last'.username \in Usernames(users))
        => /\ last'.outcome = "exists"
           /\ users' = users]_vars

C4_Witness ==
    /\ last.op = "create"
    /\ last.outcome = "exists"
    /\ last.username \in Usernames(users)

\* C5: a Create with an empty field, a confirmation that differs from the password,
\* or a password shorter than 8 characters ends in a validation error and leaves
\* the users table as it was.
C5_InvalidCreateInsertsNothing ==
    [][(last'.op = "create" /\ ~FormComplete(last'))
        => /\ last'.outcome \in ValidationErrors
           /\ users' = users]_vars

C5_Witness ==
    /\ last.op = "create"
    /\ last.outcome = "too_short"
    /\ Len(last.password) < MinPasswordLen

\* C6: a Create with any of the four fields (username, password, passwordConfirm,
\* branch) empty ends in the empty-field error, whatever the other fields hold.
C6_EmptyFieldWins ==
    (last.op = "create"
        /\ (Len(last.username) = 0 \/ Len(last.password) = 0
            \/ Len(last.confirm) = 0 \/ Len(last.cabang) = 0))
    => last.outcome = "empty_field"

\* C7 (first half): after an UpdatePassword(u, p) that reported success, p verifies
\* against the stored hash of u.
C7_NewPasswordVerifies ==
    (last.op = "update" /\ last.outcome = "updated")
    => \A r \in users : r.username = last.target => Verify(last.password, r.hashed_password)

\* C8: a delete activation on a row whose flag is not armed arms the flag and leaves
\* the users table as it was; an activation on a row whose flag is armed disarms the
\* flag and (the store executing the DELETE) removes the row's account, which the
\* listing rendered next no longer contains.
C8_DeleteTakesTwoActivations ==
    [][last'.op = "delete" =>
        LET s == last'.sess
            i == last'.row
        IN  IF i \in session_state[s].confirm_delete
            THEN /\ i \notin session_state'[s].confirm_delete
                 /\ last'.store = "ok" =>
                        /\ last'.outcome = "deleted"
                        /\ last'.target \notin Usernames(users')
                        /\ \A k \in 1..Len(shown'[s].rows) :
                                shown'[s].rows[k].username # last'.target
            ELSE /\ last'.outcome = "armed"
                 /\ users' = users
                 /\ i \in session_state'[s].confirm_delete]_vars

C8_Witness ==
    /\ last.op = "delete"
    /\ last.outcome = "deleted"
    /\ last.target \notin Usernames(users)

\* C9: an account is deleted only if the armed flag that let the DELETE through was
\* armed by an earlier delete activation on that same account.
C9_DeleteOnlyAfterOwnArming ==
    [][(last'.op = "delete" /\ last'.outcome \in {"deleted", "delete_failed"})
        => armed_for[last'.sess][last'.row] = last'.target]_vars

\* C10: the listing an Active session is served, in a run in which the store
\* answers, is exactly the accounts in the store, by username ascending.
C10_ListingIsStore ==
    (last.op \in {"rerun", "enter", "create", "update", "delete"}
        /\ shown[last.sess].screen = "admin" /\ last.store = "ok")
    => shown[last.sess].rows = SelectUsers(users)

\* C11: every row of the users table has a non-empty username without surrounding
\* whitespace, a non-empty hashed password and a non-empty branch, and no two rows
\* share a username.
C11_RowsWellFormed ==
    /\ \A r \in users :
            /\ Len(r.username) > 0
            /\ Strip(r.username) = r.username
            /\ Len(r.hashed_password) > 0
            /\ Len(r.cabang) > 0
    /\ \A r, q \in users : r.username = q.username => r = q

\* C12: a master-key submission whose input differs from the configured secret leaves
\* the session Locked, on the prompt, with the error shown; a submission whose input
\* equals the secret moves the session to Verified; and wherever the prompt is on
\* screen the correct submission can be made, whatever was submitted before.
C12_WrongKeyNoLockout ==
    /\ [][last'.op = "key" =>
            IF last'.key = MASTER_KEY
            THEN /\ session_state'[last'.sess].master_auth_ok
                 /\ MainLogic(session_state'[last'.sess]) = "verified"
                 /\ shown'[last'.sess].screen = "verified"
            ELSE /\ session_state'[last'.sess] = session_state[last'.sess]
                 /\ MainLogic(session_state'[last'.sess]) = "locked"
                 /\ shown'[last'.sess].screen = "locked"
                 /\ "key_wrong" \in last'.msgs]_vars
    /\ [](\A s \in Sessions :
            shown[s].screen = "locked" => ENABLED SubmitMasterKey(s, MASTER_KEY))

C12_Witness ==
    /\ last.op = "key" /\ last.key = "bad" /\ last.outcome = "key_wrong"
    /\ shown[last.sess].screen = "locked"
    /\ ~session_state[last.sess].master_auth_ok

\* C13: the gate of a session only moves forward: a session that has left Locked
\* (master_auth_ok set) never has it unset, and a session that is Active is Active
\* after every later interaction, the failed ones included.
C13_GateOnlyForward ==
    [][\A s \in Sessions :
            /\ session_state[s].master_auth_ok => session_state'[s].master_auth_ok
            /\ MainLogic(session_state[s]) # "locked" => MainLogic(session_state'[s]) # "locked"
            /\ Active(s) => (Active(s))'
            /\ MainLogic(session_state[s]) = "admin" => MainLogic(session_state'[s]) = "admin"]_vars

C13_Witness ==
    /\ last.op = "delete" /\ last.outcome = "delete_failed"
    /\ Active(last.sess)
    /\ shown[last.sess].screen = "admin"

\* C14: when the secret is not configured (missing or empty), the gate halts with the
\* configuration error before the prompt is rendered, and no session leaves Locked:
\* no prompt on screen, no master_auth_ok, no show_form, whatever is submitted.
C14_UnconfiguredStaysLocked ==
    MASTER_KEY = "" =>
        \A s \in Sessions :
            /\ shown[s].screen \in {"none", "halt", "closed"}
            /\ ~session_state[s].master_auth_ok
            /\ ~session_state[s].show_form
            /\ MainLogic(session_state[s]) = "locked"
            /\ ~ENABLED SubmitMasterKey(s, "")
            /\ (last.op = "rerun" /\ last.sess = s) => "config_error" \in last.msgs

C14_Witness ==
    /\ MASTER_KEY = ""
    /\ last.op = "rerun" /\ shown[last.sess].screen = "halt"
    /\ "config_error" \in last.msgs

C16_BranchInDirectoryAtCreate ==
    [][(last'.op = "create" /\ last'.outcome = "created") =>
            \A r \in users' \ users :
                r.cabang = ALL \/ r.cabang \in Range(directory) \ {NullCabang}]_vars

\* C17: an UpdatePassword whose username is not in the users table (the store
\* executing the statement) leaves the table as it was and reports the success that
\* an update of an existing account reports.
C17_UpdateOfAbsentUser ==
    [][(last'.op = "update" /\ Len(last'.password) >= MinPasswordLen
            /\ last'.store = "ok" /\ last'.target \notin Usernames(users))
        => /\ users' = users
           /\ last'.outcome = "updated"
           /\ last'.msgs = {"updated"}]_vars

C17_Witness ==
    /\ last.op = "update" /\ last.outcome = "updated"
    /\ last.target \notin Usernames(users)
    /\ users # {}

\* C18: whenever the store statement of a Create, UpdatePassword or Delete fails, the
\* interaction ends with the error diagnostic of that failure on screen.
C18_FailureIsReported ==
    /\ (last.op = "create" /\ last.outcome \in {"exists", "db_error", "error"})
            => last.outcome \in last.msgs
    /\ (last.op = "update" /\ last.outcome = "update_failed") => "update_failed" \in last.msgs
    /\ (last.op = "delete" /\ last.outcome = "delete_failed") => "delete_failed" \in last.msgs

\* C19: an UpdatePassword step changes nothing but the hashed password of the row
\* whose username it was given: that row keeps its username, branch and creation
\* time, every other row is as it was, and the table has the rows it had.
C19_UpdateFrame ==
    [][last'.op = "update" =>
            /\ Cardinality(users') = Cardinality(users)
            /\ Usernames(users') = Usernames(users)
            /\ \A r \in users :
                    \E q \in users' :
                        /\ q.username = r.username
                        /\ q.cabang = r.cabang
                        /\ q.created_at = r.created_at
                        /\ r.username # last'.target => q = r]_vars

C19_Witness ==
    /\ last.op = "update" /\ last.outcome = "updated"
    /\ Cardinality(users) = 2
    /\ \E r \in users : r.username = last.target
                            /\ r.hashed_password = StoredHash(last.password, 1)
    /\ \E r \in users : r.username # last.target
                            /\ r.hashed_password # StoredHash(last.password, 1)

\* C20: an Update Password or Hapus activation that writes to the users table writes
\* to the account shown in the activated row of the listing the operator was looking
\* at when pressing the button.
C20_WriteHitsDisplayedRow ==
    [][(last'.op \in {"update", "delete"} /\ users' # users) =>
            /\ last'.row < Len(shown[last'.sess].rows)
            /\ last'.target = shown[last'.sess].rows[last'.row + 1].username]_vars

====
